---- MODULE Spec2Model ----
(***************************************************************************)
(* PixelKit v2.0 for CircuitPython (src/lib - CircuitPython/pixelkit.py)   *)
(* and the stand-alone PauseButton (src/lib/pausebutton.py).               *)
(*                                                                         *)
(* The class-level pin registries, the pause-config loader, construction   *)
(* of a PixelKit and the check_controls scan are modelled from the source. *)
(* The digitalio / analogio drivers are external: a binding of a pin that  *)
(* is already bound raises (the driver's "pin in use" error), a read of    *)
(* .value returns any level or sample.  The NeoPixel strip is a buffer     *)
(* and what the LEDs show (two cells of the grid are followed); whether    *)
(* its library holds the strip's pin (board.D4) as a DigitalInOut, as the  *)
(* digitalio-based libraries do, is fixed for a run and takes both values. *)
(* The board module is built in, as on CircuitPython, or loaded from a .py *)
(* file; this too is fixed for a run.                                      *)
(* Config files are ASCII text read in text mode, their lines ending in    *)
(* "\n" or "\r\n".                                                         *)
(***************************************************************************)
EXTENDS Integers, Sequences, FiniteSets, TLC

VARIABLES
    dio_registry,      \* PixelKit._dio_registry : pin -> digital handle id
    ain_registry,      \* PixelKit._ain_registry : pin -> analog handle id
    handles,           \* every DigitalInOut ever bound: id -> [pin, direction, pull]
    analogs,           \* every AnalogIn ever bound: id -> [pin]
    strip_binds_pin,   \* the NeoPixel library holds the strip's pin as a DigitalInOut
    board_from_file,   \* board is a module loaded from a .py file, not a built-in module
    constructed,       \* a PixelKit instance exists (the last __init__ that completed)
    pause,             \* self.pause : digital handle id or None
    pins,              \* self.button_A .. self.joystick_click : attribute -> handle id
    analog,            \* self.dial, self.microphone : attribute -> analog handle id
    dial_value,        \* self.dial_value
    microphone_value,  \* self.microphone_value
    is_pressing,       \* self.is_pressing_<name>
    pc,                \* position inside check_controls (the next check to run)
    pixel_ops,         \* calls made on self.neopixel_instance, in order
    printed,           \* lines printed by the last __init__, then by _update_pause
    event,             \* the event hook invoked by the last step (or none)
    reads,             \* the values the last step read from its handle, in order
    cfg,               \* what the last pause config file held (kind, pin)
    ctor,              \* the last __init__: raised or not, where, the loader's return and the class before and after it
    nctor,             \* number of __init__ calls made
    watch,             \* the input whose polls are followed against its pattern
    mon,               \* number of polls (samples) of the watched input seen so far
    mon_fired,         \* the callbacks of the watched input seen so far
    matrix_buffer,     \* the buffer of self.matrix_instance: cell -> packed colour
    neopixel_buffer,   \* the buffer of self.neopixel_instance: cell -> (r, g, b)
    display,           \* what the LEDs of the strip show: cell -> (r, g, b)
    led_call,          \* the LED helper the last step called (or none)
    stack,             \* check_controls calls suspended in a callback: where each resumes
    held,              \* for one input: its callback ran and no poll read it inactive since
    polled,            \* the attribute and handle whose .value the last step read
    pb                 \* the PauseButton object of lib/pausebutton.py

vars == << dio_registry, ain_registry, handles, analogs, strip_binds_pin, board_from_file,
           constructed,
           pause, pins, analog, dial_value, microphone_value, is_pressing, pc, pixel_ops, printed,
           event, reads, cfg, ctor, nctor, watch, mon, mon_fired,
           matrix_buffer, neopixel_buffer, display, led_call, stack, held, polled, pb >>

-----------------------------------------------------------------------------
(* Bounds of the model *)

MaxPad == 1            \* longest run of blanks put around a line or a comma
MaxConstructs == 2     \* PixelKit (or PauseButton) constructions in one run
MaxCallerHandles == 1  \* DigitalInOut (and AnalogIn) objects the caller binds by itself
MaxDepth == 1          \* check_controls calls suspended inside a callback

-----------------------------------------------------------------------------
(* Values *)

None == 0              \* the Python None of an optional handle

\* The board's pin table: the default pins of __init__, the strip's pin D4
\* of line 35 and D15 of the docstring.
BoardChars ==
    [ D18 |-> <<"D","1","8">>, D23 |-> <<"D","2","3">>, D5  |-> <<"D","5">>,
      D35 |-> <<"D","3","5">>, D34 |-> <<"D","3","4">>, D26 |-> <<"D","2","6">>,
      D25 |-> <<"D","2","5">>, D27 |-> <<"D","2","7">>, VP  |-> <<"V","P">>,
      VN  |-> <<"V","N">>,     D15 |-> <<"D","1","5">>, D4  |-> <<"D","4">> ]

BoardPins == DOMAIN BoardChars

\* The digital attributes of __init__ with their default pins, in source order.
DioRoles ==
    << [attr |-> "button_A",       pin |-> "D18"],
       [attr |-> "button_B",       pin |-> "D23"],
       [attr |-> "button_reset",   pin |-> "D5"],
       [attr |-> "joystick_up",    pin |-> "D35"],
       [attr |-> "joystick_down",  pin |-> "D34"],
       [attr |-> "joystick_left",  pin |-> "D26"],
       [attr |-> "joystick_right", pin |-> "D25"],
       [attr |-> "joystick_click", pin |-> "D27"] >>

AinRoles ==
    << [attr |-> "dial",       pin |-> "VP"],
       [attr |-> "microphone", pin |-> "VN"] >>

DioAttrs == { DioRoles[i].attr : i \in 1..Len(DioRoles) }
AinAttrs == { AinRoles[i].attr : i \in 1..Len(AinRoles) }

\* Raw samples an analog read can return.
Samples == {9, 10, 12}

\* The names _check_digital is called with.
DigitalNames == {"up", "down", "left", "right", "click", "a", "b"}

-----------------------------------------------------------------------------
(* Text: str.strip, str.split(","), str.upper, readline *)

\* The characters str.strip() removes, among those of one byte (Latin-1):
\* space, U+0009..U+000D, U+001C..U+001F, U+0085 and U+00A0.
Whitespace ==
    { " ", "\t", "\n", "", "\f", "\r",
      "", "", "", "", "", " " }

\* The upper-case letter of each lower-case letter (the files are ASCII text).
UpperTable ==
    [ a |-> "A", b |-> "B", c |-> "C", d |-> "D", e |-> "E", f |-> "F", g |-> "G",
      h |-> "H", i |-> "I", j |-> "J", k |-> "K", l |-> "L", m |-> "M", n |-> "N",
      o |-> "O", p |-> "P", q |-> "Q", r |-> "R", s |-> "S", t |-> "T", u |-> "U",
      v |-> "V", w |-> "W", x |-> "X", y |-> "Y", z |-> "Z" ]

UpperChar(c) == IF c \in DOMAIN UpperTable THEN UpperTable[c] ELSE c

\* direction compared as written, without .upper()
UpperOmitted(s) == s

\* str.upper()
Upper(s) == [ i \in 1..Len(s) |-> UpperChar(s[i]) ]

RECURSIVE LStrip(_)
LStrip(s) ==
    IF s # <<>> /\ Head(s) \in Whitespace THEN LStrip(Tail(s)) ELSE s

RECURSIVE RStrip(_)
RStrip(s) ==
    IF s # <<>> /\ s[Len(s)] \in Whitespace
    THEN RStrip(SubSeq(s, 1, Len(s) - 1))
    ELSE s

Strip(s) == RStrip(LStrip(s))

\* s.split(","): the pieces between commas, empty pieces kept.
RECURSIVE SplitFrom(_, _)
SplitFrom(s, cur) ==
    IF s = <<>> THEN << cur >>
    ELSE IF Head(s) = "," THEN << cur >> \o SplitFrom(Tail(s), <<>>)
    ELSE SplitFrom(Tail(s), Append(cur, Head(s)))

Split(s) == SplitFrom(s, <<>>)

\* f.readline() of a file opened in text mode: the text up to and including
\* the first line end; a line end written "\r\n" or "\r" is read as "\n".
RECURSIVE ReadLine(_)
ReadLine(text) ==
    IF text = <<>> THEN <<>>
    ELSE IF Head(text) \in { "\n", "\r" } THEN << "\n" >>
    ELSE << Head(text) >> \o ReadLine(Tail(text))

\* Attributes every module object has (CPython: those of the module type and
\* of object, and those every import sets), by name.
ModuleAttrs ==
    {
      <<"_","_","a","n","n","o","t","a","t","i","o","n","s","_","_">>,
      <<"_","_","c","l","a","s","s","_","_">>,
      <<"_","_","d","e","l","a","t","t","r","_","_">>,
      <<"_","_","d","i","c","t","_","_">>,
      <<"_","_","d","i","r","_","_">>,
      <<"_","_","d","o","c","_","_">>,
      <<"_","_","e","q","_","_">>,
      <<"_","_","f","o","r","m","a","t","_","_">>,
      <<"_","_","g","e","_","_">>,
      <<"_","_","g","e","t","a","t","t","r","i","b","u","t","e","_","_">>,
      <<"_","_","g","e","t","s","t","a","t","e","_","_">>,
      <<"_","_","g","t","_","_">>,
      <<"_","_","h","a","s","h","_","_">>,
      <<"_","_","i","n","i","t","_","_">>,
      <<"_","_","i","n","i","t","_","s","u","b","c","l","a","s","s","_","_">>,
      <<"_","_","l","e","_","_">>,
      <<"_","_","l","o","a","d","e","r","_","_">>,
      <<"_","_","l","t","_","_">>,
      <<"_","_","n","a","m","e","_","_">>,
      <<"_","_","n","e","_","_">>,
      <<"_","_","n","e","w","_","_">>,
      <<"_","_","p","a","c","k","a","g","e","_","_">>,
      <<"_","_","r","e","d","u","c","e","_","_">>,
      <<"_","_","r","e","d","u","c","e","_","e","x","_","_">>,
      <<"_","_","r","e","p","r","_","_">>,
      <<"_","_","s","e","t","a","t","t","r","_","_">>,
      <<"_","_","s","i","z","e","o","f","_","_">>,
      <<"_","_","s","p","e","c","_","_">>,
      <<"_","_","s","t","r","_","_">>,
      <<"_","_","s","u","b","c","l","a","s","s","h","o","o","k","_","_">>
    }

\* What CircuitPython's board module has besides its pins: board.board_id and
\* the bus singletons board.I2C, board.SPI, board.UART, board.STEMMA_I2C.
BoardExtras ==
    {
      <<"b","o","a","r","d","_","i","d">>,
      <<"I","2","C">>,
      <<"S","P","I">>,
      <<"U","A","R","T">>,
      <<"S","T","E","M","M","A","_","I","2","C">>
    }

\* Attributes only a module loaded from a .py file has; a built-in module,
\* as board is on CircuitPython, lacks them.
FileModuleAttrs ==
    {
      <<"_","_","b","u","i","l","t","i","n","s","_","_">>,
      <<"_","_","c","a","c","h","e","d","_","_">>,
      <<"_","_","f","i","l","e","_","_">>
    }

\* The attributes of the board module that are no pins; from_file tells
\* whether board is a module loaded from a .py file.
BoardNonPins(from_file) ==
    ModuleAttrs \cup BoardExtras \cup (IF from_file THEN FileModuleAttrs ELSE {})

\* What getattr(board, name) gives for an attribute that is no pin: a
\* string, a type, a dict, a method; none is a pin object.
NotAPin == "<non-pin>"

\* getattr(board, pin_name): the pin of that exact name, the object of
\* another attribute of the module, or "" (AttributeError).
BoardLookup(pin_name, from_file) ==
    IF \E p \in BoardPins : BoardChars[p] = pin_name
    THEN CHOOSE p \in BoardPins : BoardChars[p] = pin_name
    ELSE IF pin_name \in BoardNonPins(from_file) THEN NotAPin
    ELSE ""

-----------------------------------------------------------------------------
(* Pin helpers with registry *)

EmptyRegistry == [ p \in {} |-> None ]

\* The class-level state the helpers work on.
ClassState(dio, ain, hs, ais) ==
    [ dio |-> dio, ain |-> ain, handles |-> hs, analogs |-> ais ]

\* The driver refuses to bind a pin that a DigitalInOut or an AnalogIn holds.
InUse(cs, pin) ==
    \/ \E i \in 1..Len(cs.handles) : cs.handles[i].pin = pin
    \/ \E i \in 1..Len(cs.analogs) : cs.analogs[i].pin = pin

\* digitalio.DigitalInOut(pin) and analogio.AnalogIn(pin): the exception the
\* driver raises, or "" when it binds the pin.
DriverRefusal(cs, pin) ==
    IF pin = NotAPin THEN "TypeError"
    ELSE IF InUse(cs, pin) THEN "ValueError"
    ELSE ""

\* dio.direction = ... : the driver drops the pull when the direction is set.
SetDirection(hs, id, direction) ==
    [ hs EXCEPT ![id] = [ @ EXCEPT !.direction = direction, !.pull = "NONE" ] ]

\* dio.pull = ...
SetPull(hs, id, pull) == [ hs EXCEPT ![id] = [ @ EXCEPT !.pull = pull ] ]

\* _init_dio without the registry lookup: binds the pin at every call.
InitDioNoLookup(cs, instance, board_pin) ==
    IF instance # None
    THEN [ cs |-> cs, ret |-> instance, raised |-> FALSE ]
    ELSE IF DriverRefusal(cs, board_pin) # ""
    THEN [ cs |-> cs, ret |-> None, raised |-> TRUE ]
    ELSE LET id == Len(cs.handles) + 1
             h0 == [ pin |-> board_pin, direction |-> "INPUT", pull |-> "NONE" ]
             hs == SetPull(SetDirection(Append(cs.handles, h0), id, "INPUT"), id, "UP")
         IN  [ cs |-> [ cs EXCEPT !.handles = hs,
                                  !.dio = (board_pin :> id) @@ cs.dio ],
               ret |-> id, raised |-> FALSE ]

\* _init_dio(instance, board_pin): the handle, and whether the binding raised.
InitDio(cs, instance, board_pin) ==
    IF instance # None
    THEN [ cs |-> cs, ret |-> instance, raised |-> FALSE ]
    ELSE IF board_pin \in DOMAIN cs.dio
    THEN [ cs |-> cs, ret |-> cs.dio[board_pin], raised |-> FALSE ]
    ELSE IF DriverRefusal(cs, board_pin) # ""
    THEN [ cs |-> cs, ret |-> None, raised |-> TRUE ]
    ELSE LET id == Len(cs.handles) + 1
             h0 == [ pin |-> board_pin, direction |-> "INPUT", pull |-> "NONE" ]
             hs == SetPull(SetDirection(Append(cs.handles, h0), id, "INPUT"), id, "UP")
         IN  [ cs |-> [ cs EXCEPT !.handles = hs,
                                  !.dio = (board_pin :> id) @@ cs.dio ],
               ret |-> id, raised |-> FALSE ]

\* _init_ain(instance, board_pin)
InitAin(cs, instance, board_pin) ==
    IF instance # None
    THEN [ cs |-> cs, ret |-> instance, raised |-> FALSE ]
    ELSE IF board_pin \in DOMAIN cs.ain
    THEN [ cs |-> cs, ret |-> cs.ain[board_pin], raised |-> FALSE ]
    ELSE IF DriverRefusal(cs, board_pin) # ""
    THEN [ cs |-> cs, ret |-> None, raised |-> TRUE ]
    ELSE LET id == Len(cs.analogs) + 1
         IN  [ cs |-> [ cs EXCEPT !.analogs = Append(@, [ pin |-> board_pin ]),
                                  !.ain = (board_pin :> id) @@ cs.ain ],
               ret |-> id, raised |-> FALSE ]

-----------------------------------------------------------------------------
(* Pause config helper *)

MsgEmpty     == "Pause config empty -> no pause button"
MsgMalformed == "Pause config malformed -> no pause button"
MsgNoPin     == "Pause config pin not found on this board:"
MsgBadDir    == "Pause config invalid direction:"
MsgLoaded    == "Pause button from config:"
MsgError     == "Pause config error:"
MsgExit      == "Pause pressed -> exiting"

\* A config file: missing, or its text.
NoFile == [ exists |-> FALSE, text |-> <<>> ]
FileOf(text) == [ exists |-> TRUE, text |-> text ]

LoadResult(cs, ret, out, raised) ==
    [ cs |-> cs, ret |-> ret, printed |-> out, raised |-> raised ]

\* Lines 96-112 of _load_pause_from_file, the text stage: what the file reads
\* as.  status is the return it leads to ("ok": go on to the binding).
Parsed(status, pin_obj, direction) ==
    [ status |-> status, pin |-> pin_obj, direction |-> direction ]

ParseConfig(file, from_file) ==
    IF ~file.exists THEN Parsed("oserror", "", <<>>)                   \* except OSError
    ELSE
    LET line == Strip(ReadLine(file.text)) IN
    IF line = <<>> THEN Parsed("empty", "", <<>>)
    ELSE
    LET split == Split(line)
        parts == [ i \in 1..Len(split) |-> Strip(split[i]) ]
    IN
    IF Len(parts) # 2 THEN Parsed("malformed", "", <<>>)
    ELSE
    LET pin_name  == parts[1]
        direction == Upper(parts[2])
        pin_obj   == BoardLookup(pin_name, from_file)
    IN
    IF pin_obj = "" THEN Parsed("nopin", "", direction)                \* except AttributeError
    ELSE Parsed("ok", pin_obj, direction)

\* The binding stage when a failed _init_dio leaves the loader as an exception.
LoadParsedUncaught(cs, pz) ==
    IF pz.status = "oserror" THEN LoadResult(cs, None, <<>>, FALSE)
    ELSE IF pz.status = "empty" THEN LoadResult(cs, None, << MsgEmpty >>, FALSE)
    ELSE IF pz.status = "malformed" THEN LoadResult(cs, None, << MsgMalformed >>, FALSE)
    ELSE IF pz.status = "nopin" THEN LoadResult(cs, None, << MsgNoPin >>, FALSE)
    ELSE
    LET r == InitDio(cs, None, pz.pin) IN
    IF r.raised THEN LoadResult(r.cs, None, <<>>, TRUE)
    ELSE IF pz.direction = <<"I","N">>
    THEN LoadResult([ r.cs EXCEPT !.handles =
                          SetPull(SetDirection(@, r.ret, "INPUT"), r.ret, "UP") ],
                    r.ret, << MsgLoaded >>, FALSE)
    ELSE IF pz.direction = <<"O","U","T">>
    THEN LoadResult([ r.cs EXCEPT !.handles = SetDirection(@, r.ret, "OUTPUT") ],
                    r.ret, << MsgLoaded >>, FALSE)
    ELSE LoadResult(r.cs, None, << MsgBadDir >>, FALSE)

\* The binding stage with a silent return for an empty first line.
LoadParsedQuietEmpty(cs, pz) ==
    IF pz.status = "oserror" THEN LoadResult(cs, None, <<>>, FALSE)
    ELSE IF pz.status = "empty" THEN LoadResult(cs, None, <<>>, FALSE)
    ELSE IF pz.status = "malformed" THEN LoadResult(cs, None, << MsgMalformed >>, FALSE)
    ELSE IF pz.status = "nopin" THEN LoadResult(cs, None, << MsgNoPin >>, FALSE)
    ELSE
    LET r == InitDio(cs, None, pz.pin) IN
    IF r.raised THEN LoadResult(r.cs, None, << MsgError >>, FALSE)
    ELSE IF pz.direction = <<"I","N">>
    THEN LoadResult([ r.cs EXCEPT !.handles =
                          SetPull(SetDirection(@, r.ret, "INPUT"), r.ret, "UP") ],
                    r.ret, << MsgLoaded >>, FALSE)
    ELSE IF pz.direction = <<"O","U","T">>
    THEN LoadResult([ r.cs EXCEPT !.handles = SetDirection(@, r.ret, "OUTPUT") ],
                    r.ret, << MsgLoaded >>, FALSE)
    ELSE LoadResult(r.cs, None, << MsgBadDir >>, FALSE)

\* Lines 95-132 of _load_pause_from_file from the parsed line on: the returns
\* of the text stage with their messages, then lines 114-126 and the handlers.
\* Gives the handle or None, what was printed, and whether an exception left it.
LoadParsed(cs, pz) ==
    IF pz.status = "oserror" THEN LoadResult(cs, None, <<>>, FALSE)
    ELSE IF pz.status = "empty" THEN LoadResult(cs, None, << MsgEmpty >>, FALSE)
    ELSE IF pz.status = "malformed" THEN LoadResult(cs, None, << MsgMalformed >>, FALSE)
    ELSE IF pz.status = "nopin" THEN LoadResult(cs, None, << MsgNoPin >>, FALSE)
    ELSE
    LET r == InitDio(cs, None, pz.pin) IN
    IF r.raised THEN LoadResult(r.cs, None, << MsgError >>, FALSE)     \* except Exception
    ELSE IF pz.direction = <<"I","N">>
    THEN LoadResult([ r.cs EXCEPT !.handles =
                          SetPull(SetDirection(@, r.ret, "INPUT"), r.ret, "UP") ],
                    r.ret, << MsgLoaded >>, FALSE)
    ELSE IF pz.direction = <<"O","U","T">>
    THEN LoadResult([ r.cs EXCEPT !.handles = SetDirection(@, r.ret, "OUTPUT") ],
                    r.ret, << MsgLoaded >>, FALSE)
    ELSE LoadResult(r.cs, None, << MsgBadDir >>, FALSE)

\* _load_pause_from_file(filename)
LoadPauseFromFile(cs, file, from_file) == LoadParsed(cs, ParseConfig(file, from_file))

-----------------------------------------------------------------------------
(* Config files given to the loader *)

Blank(n) == [ i \in 1..n |-> " " ]
Pads == { Blank(n) : n \in 0..MaxPad }

InSpellings  == { <<"I","N">>, <<"i","n">>, <<"I","n">> }
OutSpellings == { <<"O","U","T">>, <<"o","u","t">>, <<"O","u","t">> }
DirFields == InSpellings \cup OutSpellings \cup { <<"U","P">>, <<>> }

PinFields ==
    { BoardChars["D15"], BoardChars["D18"], BoardChars["VP"], BoardChars["D4"],
      <<"D","9","9">>, <<"d","1","5">>, <<"_","_","n","a","m","e","_","_">>,
      <<"_","_","f","i","l","e","_","_">>, <<>> }

FieldLists ==
    { <<>> }
    \cup { << p >> : p \in PinFields \ { <<>> } }
    \cup { << p, d >> : p \in PinFields, d \in DirFields }
    \cup { << BoardChars["D15"], <<"I","N">>, x >> : x \in { <<>>, <<"I","N">> } }

\* How a line of the file ends: "\n", or "\r\n" as some editors save it.
LineEnds == { << "\n" >>, << "\r", "\n" >> }

\* A config file by its make-up: the fields of its first line, the blanks
\* around the line and around each comma, how the line ends, and whether a
\* second line follows.
ConfigFiles ==
    { [ exists |-> FALSE, fields |-> <<>>, outer |-> <<>>, inner |-> <<>>,
        eol |-> << "\n" >>, more |-> FALSE ] }
    \cup [ exists : {TRUE}, fields : FieldLists, outer : Pads, inner : Pads,
           eol : LineEnds, more : BOOLEAN ]

RECURSIVE JoinFields(_, _)
JoinFields(fields, inner) ==
    IF fields = <<>> THEN <<>>
    ELSE IF Len(fields) = 1 THEN fields[1]
    ELSE fields[1] \o inner \o << "," >> \o inner \o JoinFields(Tail(fields), inner)

\* The file a make-up stands for.
Render(d) ==
    IF ~d.exists THEN NoFile
    ELSE FileOf( d.outer \o JoinFields(d.fields, d.inner) \o d.outer \o d.eol
                 \o (IF d.more THEN BoardChars["D15"] \o << ",", "I", "N" >> \o d.eol
                     ELSE <<>>) )

\* What the file format of the docstring makes of a file: its kind, and the
\* pin it names when it names one of the board.  A name of an attribute of
\* board that is no pin is of kind "notpin".
Classify(d, from_file) ==
    IF ~d.exists THEN [ kind |-> "missing", pin |-> "" ]
    ELSE IF d.fields = <<>> THEN [ kind |-> "empty", pin |-> "" ]
    ELSE IF Len(d.fields) # 2 THEN [ kind |-> "arity", pin |-> "" ]
    ELSE IF d.fields[1] \in BoardNonPins(from_file) THEN [ kind |-> "notpin", pin |-> "" ]
    ELSE IF ~ \E p \in BoardPins : BoardChars[p] = d.fields[1]
    THEN [ kind |-> "nopin", pin |-> "" ]
    ELSE LET p == CHOOSE q \in BoardPins : BoardChars[q] = d.fields[1] IN
         IF d.fields[2] \in InSpellings THEN [ kind |-> "IN", pin |-> p ]
         ELSE IF d.fields[2] \in OutSpellings THEN [ kind |-> "OUT", pin |-> p ]
         ELSE [ kind |-> "baddir", pin |-> p ]

NotLoaded == [ kind |-> "notcalled", pin |-> "" ]

\* Each file read once: what the text stage makes of it, next to its make-up's kind.
LoadCasesOn(from_file) ==
    { [ parsed |-> ParseConfig(Render(d), from_file), cfg |-> Classify(d, from_file) ] :
        d \in ConfigFiles }

\* The cases on a built-in board module and on one loaded from a .py file.
LoadCasesBuiltIn == LoadCasesOn(FALSE)
LoadCasesFromFile == LoadCasesOn(TRUE)
LoadCases(from_file) == IF from_file THEN LoadCasesFromFile ELSE LoadCasesBuiltIn

\* No file is read when a pause handle is given.
NoLoad == [ parsed |-> Parsed("oserror", "", <<>>), cfg |-> NotLoaded ]

-----------------------------------------------------------------------------
(* PixelKit.__init__ *)

ArgNames == {"pause"} \cup DioAttrs \cup AinAttrs
NoArgs == [ a \in ArgNames |-> None ]

NoPins   == [ a \in DioAttrs |-> None ]
NoAnalog == [ a \in AinAttrs |-> None ]
Released == [ n \in DigitalNames |-> FALSE ]

\* Lines 42-49: the digital attributes in order; stops at the first that raises.
RECURSIVE InitDigitalPins(_, _, _, _)
InitDigitalPins(cs, args, k, refs) ==
    IF k > Len(DioRoles)
    THEN [ cs |-> cs, refs |-> refs, raised |-> FALSE, site |-> "" ]
    ELSE LET r == InitDio(cs, args[DioRoles[k].attr], DioRoles[k].pin) IN
         IF r.raised
         THEN [ cs |-> r.cs, refs |-> refs, raised |-> TRUE, site |-> DioRoles[k].attr ]
         ELSE InitDigitalPins(r.cs, args, k + 1, (DioRoles[k].attr :> r.ret) @@ refs)

\* Lines 52-53: the analog attributes in order.
RECURSIVE InitAnalogPins(_, _, _, _)
InitAnalogPins(cs, args, k, refs) ==
    IF k > Len(AinRoles)
    THEN [ cs |-> cs, refs |-> refs, raised |-> FALSE, site |-> "" ]
    ELSE LET r == InitAin(cs, args[AinRoles[k].attr], AinRoles[k].pin) IN
         IF r.raised
         THEN [ cs |-> r.cs, refs |-> refs, raised |-> TRUE, site |-> AinRoles[k].attr ]
         ELSE InitAnalogPins(r.cs, args, k + 1, (AinRoles[k].attr :> r.ret) @@ refs)

\* The pin of the strip (line 35) and the attribute line 35 sets.
StripPin == "D4"
StripSite == "neopixel_instance"

\* Line 35, neopixel.NeoPixel(board.D4, 128, auto_write=False): a library that
\* drives the strip through digitalio binds the pin as an output and keeps it,
\* and is refused a pin in use.
NeoPixelInit(cs, binds) ==
    IF ~binds THEN [ cs |-> cs, raised |-> FALSE ]
    ELSE IF InUse(cs, StripPin) THEN [ cs |-> cs, raised |-> TRUE ]
    ELSE [ cs |-> [ cs EXCEPT !.handles =
                      Append(@, [ pin |-> StripPin, direction |-> "OUTPUT", pull |-> "NONE" ]) ],
           raised |-> FALSE ]

\* __init__(pause, button_A, ..., pause_config_file): the class state it leaves,
\* whether it raised and at which attribute, and the fields of the instance.
\* (Lines 56-64, the state fields, are set by the action that uses it.)
\* parsed is what the text stage of the loader made of pause_config_file.
\* binds tells whether neopixel.NeoPixel holds its pin as a DigitalInOut.
PixelKitInit(cs0, args, parsed, binds) ==
    LET np == NeoPixelInit(cs0, binds)
        cs == np.cs
        l == IF np.raised THEN LoadResult(cs, None, <<>>, FALSE)
             ELSE IF args["pause"] # None
             THEN LoadResult(cs, args["pause"], <<>>, FALSE)
             ELSE LoadParsed(cs, parsed)
        failed(c, out, site) ==
             [ cs |-> c, raised |-> TRUE, site |-> site, loaded |-> l.ret,
               before_load |-> cs, after_load |-> l.cs,
               pause |-> None, pins |-> NoPins, analog |-> NoAnalog, printed |-> out ]
    IN
    IF np.raised THEN failed(cs, <<>>, StripSite)
    ELSE IF l.raised THEN failed(l.cs, l.printed, "pause")
    ELSE
    LET dg == InitDigitalPins(l.cs, args, 1, EmptyRegistry) IN
    IF dg.raised THEN failed(dg.cs, l.printed, dg.site)
    ELSE
    LET an == InitAnalogPins(dg.cs, args, 1, EmptyRegistry) IN
    IF an.raised THEN failed(an.cs, l.printed, an.site)
    ELSE [ cs |-> an.cs, raised |-> FALSE, site |-> "", loaded |-> l.ret, pause |-> l.ret,
           before_load |-> cs, after_load |-> l.cs,
           pins |-> dg.refs, analog |-> an.refs, printed |-> l.printed ]

-----------------------------------------------------------------------------
(* Input scanning *)

\* check_controls calling _check_buttons before _check_joystick.
ScanOrderButtonsFirst ==
    << "a", "b", "up", "down", "left", "right", "click", "dial", "microphone", "pause" >>

\* check_controls, _check_joystick, _check_buttons: the checks in call order.
ScanOrder ==
    << "up", "down", "left", "right", "click", "a", "b", "dial", "microphone", "pause" >>

ScanIndex(p) == CHOOSE i \in 1..Len(ScanOrder) : ScanOrder[i] = p

\* The check that follows p; check_controls returns after the last one.
NextPc(p) ==
    IF ScanIndex(p) = Len(ScanOrder) THEN ScanOrder[1] ELSE ScanOrder[ScanIndex(p) + 1]

\* The is_joystick argument of each _check_digital call.
IsJoystick == [ n \in DigitalNames |-> n \in {"up", "down", "left", "right", "click"} ]

JoystickHook ==
    [ up |-> "on_joystick_up", down |-> "on_joystick_down", left |-> "on_joystick_left",
      right |-> "on_joystick_right", click |-> "on_joystick_click",
      a |-> "on_joystick_a", b |-> "on_joystick_b" ]

ButtonHook ==
    [ up |-> "on_button_up", down |-> "on_button_down", left |-> "on_button_left",
      right |-> "on_button_right", click |-> "on_button_click",
      a |-> "on_button_a", b |-> "on_button_b" ]

\* f"on_{'joystick_' if is_joystick else 'button_'}{name}"
EventMethod(name, is_joystick) ==
    IF is_joystick THEN JoystickHook[name] ELSE ButtonHook[name]

NoEvent == [ name |-> "", arg |-> None ]

\* _check_joystick passing each direction the handle of the next one.
CheckedAttrShifted ==
    [ up |-> "joystick_down", down |-> "joystick_left", left |-> "joystick_right",
      right |-> "joystick_click", click |-> "joystick_up",
      a |-> "button_A", b |-> "button_B" ]

\* The attribute each _check_digital call passes as dio.
CheckedAttr ==
    [ up |-> "joystick_up", down |-> "joystick_down", left |-> "joystick_left",
      right |-> "joystick_right", click |-> "joystick_click",
      a |-> "button_A", b |-> "button_B" ]

NoPoll == [ attr |-> "", handle |-> None ]

\* No input is followed from callback to callback.
NotHeld == [ input |-> "", on |-> FALSE ]
Poll(attr, handle) == [ attr |-> attr, handle |-> handle ]

\* How an event hook ends: it returns, it raises, or it calls check_controls.
HookWays == {"return", "raise", "reenter"}

\* The flag when the hook is left by raising or by calling check_controls,
\* had setattr come after event_method().
PressingSetAfterHook(after, before, how) == IF how = "return" THEN after ELSE before

\* Lines 158-159: setattr(self, state_attr, True) comes before event_method(),
\* so the flag is set however the hook ends.
PressingAtHook(after, before, how) == after
Invoked(hook, arg) == [ name |-> hook, arg |-> arg ]

\* _check_digital fired on the level alone, whatever the flag.
DigitalOutcomeLevel(v1, v2, pressing) ==
    IF ~v1
    THEN [ pressing |-> TRUE, fired |-> TRUE, reads |-> << v1 >> ]
    ELSE IF v2 /\ pressing
    THEN [ pressing |-> FALSE, fired |-> FALSE, reads |-> << v1, v2 >> ]
    ELSE [ pressing |-> pressing, fired |-> FALSE, reads |-> << v1, v2 >> ]

\* The body of _check_digital: v1 is what the first dio.value reads, v2 what
\* the second reads when the elif is evaluated.
DigitalOutcome(v1, v2, pressing) ==
    IF ~v1 /\ ~pressing
    THEN [ pressing |-> TRUE, fired |-> TRUE, reads |-> << v1 >> ]
    ELSE IF v2 /\ pressing
    THEN [ pressing |-> FALSE, fired |-> FALSE, reads |-> << v1, v2 >> ]
    ELSE [ pressing |-> pressing, fired |-> FALSE, reads |-> << v1, v2 >> ]

\* _check_dial / _check_microphone that never store the new sample.
AnalogOutcomeNoStore(new_value, stored) ==
    IF new_value # stored
    THEN [ stored |-> stored, fired |-> TRUE, arg |-> new_value ]
    ELSE [ stored |-> stored, fired |-> FALSE, arg |-> None ]

\* The body of _check_dial and of _check_microphone.
AnalogOutcome(new_value, stored) ==
    IF new_value # stored
    THEN [ stored |-> new_value, fired |-> TRUE, arg |-> new_value ]
    ELSE [ stored |-> stored, fired |-> FALSE, arg |-> None ]

-----------------------------------------------------------------------------
(* Following one input against the sequences of section 8 *)

\* active, active, active, inactive, active (active-low: value False is active)
PressPattern == << FALSE, FALSE, FALSE, TRUE, FALSE >>

\* 10, 10, 12, 12, 9; the first is the sample __init__ reads
SamplePattern == << 10, 10, 12, 12, 9 >>

Unwatched == "none"

\* One more poll of the watched input: seen is what the poll read, want the
\* pattern, mark what is noted when the callback fired.
Follow(seen, want, fired, mark) ==
    IF mon < Len(want) /\ \A i \in 1..Len(seen) : seen[i] = want[mon + 1]
    THEN /\ watch' = watch
         /\ mon' = mon + 1
         /\ mon_fired' = IF fired THEN Append(mon_fired, mark) ELSE mon_fired
    ELSE /\ watch' = Unwatched
         /\ mon' = 0
         /\ mon_fired' = <<>>

-----------------------------------------------------------------------------
(* LED strip and framebuffer *)

Black == << 0, 0, 0 >>
Fill(color) == [ op |-> "fill", arg |-> color ]
Show == [ op |-> "show", arg |-> <<>> ]

\* The cells of the 16 x 8 grid that are followed: two opposite corners.
Cells == { << 0, 0 >>, << 15, 7 >> }

\* 0x00FF00, the default colour of set_pixel and set_background
DefaultColor == 65280

\* 0x000000, the colour clear() passes on
ClearColor == 0

\* Colours the LED helpers are called with.
Colors == { ClearColor, DefaultColor }

\* A packed 24-bit colour as the (r, g, b) the strip holds.
Unpack(color) == << color \div 65536, (color \div 256) % 256, color % 256 >>

\* NeoPixel(board.D4, 128, auto_write=False): a strip holds a buffer, shows
\* it on show(), and on every write when auto_write is set.
AllBlack == [ c \in Cells |-> Black ]

Strip0(auto_write, shown) ==
    [ auto_write |-> auto_write, buf |-> AllBlack, shown |-> shown ]

StripFill(st, rgb) ==
    LET b == [ c \in Cells |-> rgb ] IN
    [ st EXCEPT !.buf = b, !.shown = IF st.auto_write THEN b ELSE @ ]

StripShow(st) == [ st EXCEPT !.shown = st.buf ]

\* The calls ops made on a strip, in order.
RECURSIVE StripApply(_, _)
StripApply(st, ops) ==
    IF ops = <<>> THEN st
    ELSE StripApply(IF Head(ops).op = "fill" THEN StripFill(st, Head(ops).arg)
                    ELSE StripShow(st),
                    Tail(ops))

\* PixelFramebuffer(self.neopixel_instance, 16, 8): pixel, fill, display.
Dark == [ c \in Cells |-> ClearColor ]
FramePixel(buf, x, y, color) == [ buf EXCEPT ![<< x, y >>] = color ]
FrameFill(buf, color) == [ c \in Cells |-> color ]

\* display(): every cell of the buffer is copied to the strip, then show().
FrameDisplay(buf, st) ==
    StripShow([ st EXCEPT !.buf = [ c \in Cells |-> Unpack(buf[c]) ] ])

\* The LED helpers: the framebuffer and the strip each leaves.
LedState(buf, st) == [ matrix |-> buf, strip |-> st ]

RenderLeds(ls) == LedState(ls.matrix, FrameDisplay(ls.matrix, ls.strip))

SetPixel(ls, x, y, color) == LedState(FramePixel(ls.matrix, x, y, color), ls.strip)

\* set_background that writes through to the LEDs.
SetBackgroundWriteThrough(ls, color) ==
    RenderLeds(LedState(FrameFill(ls.matrix, color), ls.strip))

SetBackground(ls, color) == LedState(FrameFill(ls.matrix, color), ls.strip)

Clear(ls) == SetBackground(ls, ClearColor)


-----------------------------------------------------------------------------
(* Pause behavior *)

\* _update_pause that shows before it fills.
PauseOutcomeShowFirst(p, v) ==
    IF p # None /\ ~v
    THEN [ ops |-> << Show, Fill(Black) >>, out |-> << MsgExit >>, exit |-> TRUE ]
    ELSE [ ops |-> <<>>, out |-> <<>>, exit |-> FALSE ]

\* The body of _update_pause: p is self.pause, v what self.pause.value reads.
PauseOutcome(p, v) ==
    IF p # None /\ ~v
    THEN [ ops |-> << Fill(Black), Show >>, out |-> << MsgExit >>, exit |-> TRUE ]
    ELSE [ ops |-> <<>>, out |-> <<>>, exit |-> FALSE ]

-----------------------------------------------------------------------------
(* lib/pausebutton.py: PauseButton *)

MsgPBError == "PauseButton config error:"
MsgPBExit  == "PauseButton pressed! Exiting..."

\* The defaults of _load_from_file
DefaultPinName == << "I", "O", "1", "5" >>
DefaultDir     == << "I", "N" >>

\* leds=None: no strip is given.
NoLeds == [ given |-> FALSE, auto_write |-> FALSE, buf |-> AllBlack, shown |-> AllBlack ]

\* No PauseButton object exists.  step, cfg and read tell of the last call:
\* which it was, what the config file held, what self.button.value read; n is
\* the number of PauseButton objects made so far.
NoPauseButton ==
    [ made |-> FALSE, raised |-> "", button |-> None, leds |-> NoLeds, paused |-> FALSE,
      printed |-> <<>>, exited |-> FALSE, step |-> "", cfg |-> NotLoaded, read |-> TRUE,
      n |-> 0 ]

\* Lines 15-23 of _load_from_file: the pin name and the direction the file
\* gives, or the defaults after any exception, with what is printed.
PBParse(file) ==
    LET defaults == [ pin_name |-> DefaultPinName, direction |-> DefaultDir,
                      printed |-> << MsgPBError >> ]
    IN
    IF ~file.exists THEN defaults
    ELSE
    LET line == Strip(ReadLine(file.text)) IN
    IF line = <<>> THEN defaults                                   \* raise ValueError
    ELSE
    LET split == Split(line)
        parts == [ i \in 1..Len(split) |-> Strip(split[i]) ]
    IN
    IF Len(parts) # 2 THEN defaults                                \* unpacking fails
    ELSE [ pin_name |-> parts[1], direction |-> parts[2], printed |-> <<>> ]

\* getattr(board, pin_name) on a board that may or may not have a pin IO15.
PBBoardLookup(pin_name, has_io15, from_file) ==
    IF pin_name = DefaultPinName
    THEN (IF has_io15 THEN "IO15" ELSE "")
    ELSE BoardLookup(pin_name, from_file)

PBResult(hs, ret, raised, out) ==
    [ handles |-> hs, ret |-> ret, raised |-> raised, printed |-> out ]

\* Lines 25-40 of _load_from_file: the pin is looked up and bound, then the
\* direction is applied; raised names the exception that leaves the method.
PBLoad(hs, ais, pz, has_io15, from_file) ==
    LET pin == PBBoardLookup(pz.pin_name, has_io15, from_file)
        refusal == DriverRefusal(ClassState(EmptyRegistry, EmptyRegistry, hs, ais), pin)
    IN
    IF pin = "" THEN PBResult(hs, None, "AttributeError", pz.printed)
    ELSE IF refusal # "" THEN PBResult(hs, None, refusal, pz.printed)
    ELSE
    LET id == Len(hs) + 1
        h0 == Append(hs, [ pin |-> pin, direction |-> "INPUT", pull |-> "NONE" ])
    IN
    IF Upper(pz.direction) = << "I", "N" >>
    THEN PBResult(SetPull(SetDirection(h0, id, "INPUT"), id, "UP"), id, "", pz.printed)
    ELSE IF Upper(pz.direction) = << "O", "U", "T" >>
    THEN PBResult(SetDirection(h0, id, "OUTPUT"), id, "", pz.printed)
    ELSE PBResult(h0, None, "ValueError", pz.printed)

\* _load_from_file(filename)
PBLoadFromFile(hs, ais, file, has_io15, from_file) ==
    PBLoad(hs, ais, PBParse(file), has_io15, from_file)

\* Each file read once by PauseButton, next to its make-up's kind.
PBCasesOn(from_file) ==
    { [ parsed |-> PBParse(Render(d)), cfg |-> Classify(d, from_file) ] : d \in ConfigFiles }

PBCasesBuiltIn == PBCasesOn(FALSE)
PBCasesFromFile == PBCasesOn(TRUE)
PBCases(from_file) == IF from_file THEN PBCasesFromFile ELSE PBCasesBuiltIn

\* No config_file is given.
PBNoFile == [ parsed |-> PBParse(NoFile), cfg |-> NotLoaded ]

\* PauseButton.__init__(button, leds, config_file): the object it makes, or
\* the exception that leaves it without an object.
PauseButtonInit(hs, ais, button, leds, c, has_io15, from_file, n) ==
    LET l == IF c.cfg.kind # "notcalled"
             THEN PBLoad(hs, ais, c.parsed, has_io15, from_file)
             ELSE PBResult(hs, button, "", <<>>)
    IN
    [ handles |-> l.handles,
      pb |-> [ made |-> l.raised = "", raised |-> l.raised, button |-> l.ret,
               leds |-> leds, paused |-> FALSE, printed |-> l.printed,
               exited |-> FALSE, step |-> "init", cfg |-> c.cfg, read |-> TRUE,
               n |-> n ] ]

\* A strip handed over as leds: it shows a picture.
Lit == [ c \in Cells |-> Unpack(DefaultColor) ]
LedsGiven ==
    { NoLeds }
    \cup { [ given |-> TRUE, auto_write |-> a, buf |-> Lit, shown |-> Lit ] : a \in BOOLEAN }

\* The body of update(): v is what self.button.value reads.
PBUpdateOutcome(p, v) ==
    IF p.button # None /\ ~v
    THEN [ p EXCEPT !.leds = IF @.given THEN StripFill(@, Black) ELSE @,
                    !.printed = Append(@, MsgPBExit),
                    !.exited = TRUE, !.step = "update", !.read = v ]
    ELSE [ p EXCEPT !.step = "update", !.read = v ]

-----------------------------------------------------------------------------
(* Initial states *)

Fresh == ClassState(EmptyRegistry, EmptyRegistry, <<>>, <<>>)

\* Pins the caller may bind by itself (a DigitalInOut made outside PixelKit).
CallerPins == {"D15", "D18"}

\* digitalio.DigitalInOut(pin) as the driver leaves it: an input without pull.
CallerHandle(pin) == [ pin |-> pin, direction |-> "INPUT", pull |-> "NONE" ]

\* Handles __init__ may be given: one the caller bound itself, or the handle
\* an earlier PixelKit holds for button B.
Givable(cs) ==
    { i \in 1..Len(cs.handles) : /\ cs.handles[i].pin \in CallerPins
                                 /\ cs.handles[i].pin \notin DOMAIN cs.dio }
    \cup (IF "D23" \in DOMAIN cs.dio THEN { cs.dio["D23"] } ELSE {})

\* Analog inputs __init__ may be given as dial: those the caller bound itself.
GivableAnalog(cs) ==
    { i \in 1..Len(cs.analogs) : cs.analogs[i].pin \notin DOMAIN cs.ain }

ArgChoices(cs) ==
    { [ NoArgs EXCEPT !["pause"] = x, !["button_A"] = y, !["dial"] = z ] :
        x \in {None} \cup Givable(cs), y \in {None} \cup Givable(cs),
        z \in {None} \cup GivableAnalog(cs) }

\* The files __init__ can read: none when a pause handle is given.
CasesFor(args, from_file) ==
    IF args["pause"] # None THEN { NoLoad } ELSE LoadCases(from_file)

\* The class before any PixelKit exists.
InitClass ==
    /\ dio_registry = EmptyRegistry
    /\ ain_registry = EmptyRegistry
    /\ handles = <<>>
    /\ analogs = <<>>
    /\ strip_binds_pin \in BOOLEAN
    /\ board_from_file \in BOOLEAN
    /\ constructed = FALSE
    /\ pause = None
    /\ pins = NoPins
    /\ analog = NoAnalog
    /\ dial_value = 0
    /\ microphone_value = 0
    /\ is_pressing = Released
    /\ pc = ScanOrder[1]
    /\ pixel_ops = <<>>
    /\ printed = <<>>
    /\ event = NoEvent
    /\ reads = <<>>
    /\ cfg = NotLoaded
    /\ ctor = [ raised |-> FALSE, site |-> "", loaded |-> None,
                before_load |-> Fresh, after_load |-> Fresh ]
    /\ held = NotHeld
    /\ nctor = 0
    /\ watch = Unwatched
    /\ mon = 0
    /\ mon_fired = <<>>
    /\ matrix_buffer = Dark
    /\ neopixel_buffer = Strip0(FALSE, AllBlack).buf
    /\ display = AllBlack
    /\ led_call = ""
    /\ stack = <<>>
    /\ polled = NoPoll
    /\ pb = NoPauseButton

\* The state after PixelKit(...) on the class state pre; c is one of the
\* cases of a board module of the kind from_file tells.
AfterInit(pre, args, c, ds, ms, binds, from_file) ==
    LET r == PixelKitInit(pre, args, c.parsed, binds) IN
    /\ strip_binds_pin = binds
    /\ board_from_file = from_file
    /\ dio_registry = r.cs.dio
    /\ ain_registry = r.cs.ain
    /\ handles = r.cs.handles
    /\ analogs = r.cs.analogs
    /\ constructed = ~r.raised
    /\ pause = r.pause
    /\ pins = r.pins
    /\ analog = r.analog
    /\ dial_value = IF r.raised THEN 0 ELSE ds
    /\ microphone_value = IF r.raised THEN 0 ELSE ms
    /\ is_pressing = Released
    /\ pc = ScanOrder[1]
    /\ pixel_ops = <<>>
    /\ printed = r.printed
    /\ event = NoEvent
    /\ reads = <<>>
    /\ cfg = IF r.raised /\ r.site = StripSite THEN NotLoaded ELSE c.cfg
    /\ ctor = [ raised |-> r.raised, site |-> r.site, loaded |-> r.loaded,
                before_load |-> r.before_load, after_load |-> r.after_load ]
    /\ nctor = 1
    /\ matrix_buffer = Dark
    /\ neopixel_buffer = Strip0(FALSE, AllBlack).buf
    /\ display = AllBlack
    /\ led_call = ""
    /\ stack = <<>>
    /\ polled = NoPoll
    /\ pb = NoPauseButton

\* A PixelKit just constructed: on a fresh class, or with one pin the caller
\* bound itself and may pass as the pause handle.
Init ==
    /\ \E pre \in {Fresh, ClassState(EmptyRegistry, EmptyRegistry, << CallerHandle("D15") >>, <<>>)} :
       \E x \in {None} \cup Givable(pre) :
       LET args == [ NoArgs EXCEPT !["pause"] = x ] IN
       \E c \in CasesFor(args, FALSE) :
       \E ds \in Samples, ms \in Samples, binds \in BOOLEAN :
           AfterInit(pre, args, c, ds, ms, binds, FALSE)
    /\ watch = Unwatched
    /\ mon = 0
    /\ mon_fired = <<>>
    /\ held = NotHeld

\* A default PixelKit without pause button, one of its inputs followed.
InitSeq ==
    /\ \E ds \in Samples, ms \in Samples :
       /\ AfterInit(Fresh, NoArgs, CHOOSE c \in LoadCases(FALSE) : c.cfg.kind = "missing",
                    ds, ms, TRUE, FALSE)
       /\ watch \in DigitalNames \cup {"dial", "microphone"}
       /\ watch = "dial" => ds = SamplePattern[1]
       /\ watch = "microphone" => ms = SamplePattern[1]
       /\ mon = IF watch \in DigitalNames THEN 0 ELSE 1
    /\ mon_fired = <<>>
    /\ held = NotHeld

-----------------------------------------------------------------------------
(* Actions *)

\* The caller binds a pin by itself: digitalio.DigitalInOut(pin).
CallerBind(pin) ==
    /\ Cardinality({ i \in 1..Len(handles) : /\ handles[i].pin \in CallerPins
                                              /\ handles[i].pin \notin DOMAIN dio_registry })
          < MaxCallerHandles
    /\ ~InUse(ClassState(dio_registry, ain_registry, handles, analogs), pin)
    /\ handles' = Append(handles, CallerHandle(pin))
    /\ UNCHANGED << dio_registry, ain_registry, analogs, strip_binds_pin, board_from_file,
                    constructed, pause, pins, analog,
                    dial_value, microphone_value, is_pressing, pc, pixel_ops, printed,
                    event, reads, cfg, ctor, nctor, watch, mon, mon_fired,
                    matrix_buffer, neopixel_buffer, display, led_call, stack, held,
                    polled, pb >>

\* The caller binds an analog pin by itself: analogio.AnalogIn(pin).
CallerBindAnalog(pin) ==
    /\ Cardinality({ i \in 1..Len(analogs) : analogs[i].pin \notin DOMAIN ain_registry })
          < MaxCallerHandles
    /\ ~InUse(ClassState(dio_registry, ain_registry, handles, analogs), pin)
    /\ analogs' = Append(analogs, [ pin |-> pin ])
    /\ UNCHANGED << dio_registry, ain_registry, handles, strip_binds_pin, board_from_file,
                    constructed,
                    pause, pins, analog, dial_value, microphone_value, is_pressing, pc,
                    pixel_ops, printed, event, reads, cfg, ctor, nctor, watch, mon,
                    mon_fired, matrix_buffer, neopixel_buffer, display, led_call, stack,
                    held, polled, pb >>

\* PixelKit(pause=..., button_A=..., dial=..., pause_config_file=...); ds and
\* ms are what self.dial.value and self.microphone.value read at lines 56-57.
Construct(args, c, ds, ms) ==
    /\ nctor < MaxConstructs
    /\ LET r == PixelKitInit(ClassState(dio_registry, ain_registry, handles, analogs),
                             args, c.parsed, strip_binds_pin)
       IN
       /\ dio_registry' = r.cs.dio
       /\ ain_registry' = r.cs.ain
       /\ handles' = r.cs.handles
       /\ analogs' = r.cs.analogs
       /\ printed' = r.printed
       /\ ctor' = [ raised |-> r.raised, site |-> r.site, loaded |-> r.loaded,
                     before_load |-> r.before_load, after_load |-> r.after_load ]
       /\ cfg' = IF r.raised /\ r.site = StripSite THEN NotLoaded ELSE c.cfg
       /\ nctor' = nctor + 1
       /\ IF r.raised
          THEN UNCHANGED << constructed, pause, pins, analog, dial_value,
                            microphone_value, is_pressing, pc, pixel_ops, event, reads,
                            matrix_buffer, neopixel_buffer, held, polled >>
          ELSE /\ constructed' = TRUE
               /\ matrix_buffer' = Dark
               /\ neopixel_buffer' = Strip0(FALSE, display).buf
               /\ held' = [ held EXCEPT !.on = FALSE ]
               /\ polled' = NoPoll
               /\ pause' = r.pause
               /\ pins' = r.pins
               /\ analog' = r.analog
               /\ dial_value' = ds
               /\ microphone_value' = ms
               /\ is_pressing' = Released
               /\ pc' = ScanOrder[1]
               /\ pixel_ops' = <<>>
               /\ event' = NoEvent
               /\ reads' = <<>>
    /\ UNCHANGED << watch, mon, mon_fired, display, led_call, stack, pb,
                    strip_binds_pin, board_from_file >>

\* One _check_digital call of check_controls; how is the way the hook ends
\* when it is invoked.
CheckDigitalWith(name, how) ==
    /\ constructed
    /\ pc = name
    /\ \E v1 \in BOOLEAN, v2 \in BOOLEAN :
       LET o == DigitalOutcome(v1, v2, is_pressing[name]) IN
       /\ o.fired \/ how = "return"
       /\ how = "reenter" => Len(stack) < MaxDepth
       /\ is_pressing' = [ is_pressing EXCEPT ![name] =
                              PressingAtHook(o.pressing, is_pressing[name], how) ]
       /\ held' = IF held.input # name THEN held
                  ELSE IF o.fired THEN [ held EXCEPT !.on = TRUE ]
                  ELSE IF \E i \in 1..Len(o.reads) : o.reads[i]
                  THEN [ held EXCEPT !.on = FALSE ]
                  ELSE held
       /\ event' = IF o.fired
                   THEN Invoked(EventMethod(name, IsJoystick[name]), None)
                   ELSE NoEvent
       /\ reads' = o.reads
       /\ IF watch = name
          THEN Follow(o.reads, PressPattern, o.fired, mon + 1)
          ELSE UNCHANGED << watch, mon, mon_fired >>
    /\ polled' = Poll(CheckedAttr[name], pins[CheckedAttr[name]])
    /\ pc' = IF how = "return" THEN NextPc(pc) ELSE ScanOrder[1]
    /\ stack' = IF how = "return" THEN stack
                ELSE IF how = "raise" THEN <<>>
                ELSE << NextPc(pc) >> \o stack
    /\ led_call' = ""
    /\ UNCHANGED << dio_registry, ain_registry, analogs, strip_binds_pin, board_from_file,
                    handles, constructed, pause, pins,
                    analog, dial_value, microphone_value, pixel_ops, printed, cfg,
                    ctor, nctor, matrix_buffer, neopixel_buffer, display, pb >>

\* _check_digital with the default hooks, which return.
CheckDigital(name) == CheckDigitalWith(name, "return")

\* _check_dial
CheckDial ==
    /\ constructed
    /\ pc = "dial"
    /\ \E new_value \in Samples :
       LET o == AnalogOutcome(new_value, dial_value) IN
       /\ dial_value' = o.stored
       /\ event' = IF o.fired THEN Invoked("on_dial", o.arg) ELSE NoEvent
       /\ reads' = << new_value >>
       /\ IF watch = "dial"
          THEN Follow(<< new_value >>, SamplePattern, o.fired, o.arg)
          ELSE UNCHANGED << watch, mon, mon_fired >>
    /\ polled' = Poll("dial", analog["dial"])
    /\ pc' = NextPc(pc)
    /\ led_call' = ""
    /\ UNCHANGED << dio_registry, ain_registry, analogs, strip_binds_pin, board_from_file,
                    handles, constructed, pause, pins,
                    analog, microphone_value, is_pressing, pixel_ops, printed, cfg,
                    ctor, nctor, matrix_buffer, neopixel_buffer, display, stack,
                    held, pb >>

\* _check_microphone
CheckMicrophone ==
    /\ constructed
    /\ pc = "microphone"
    /\ \E new_value \in Samples :
       LET o == AnalogOutcome(new_value, microphone_value) IN
       /\ microphone_value' = o.stored
       /\ event' = IF o.fired THEN Invoked("on_microphone", o.arg) ELSE NoEvent
       /\ reads' = << new_value >>
       /\ IF watch = "microphone"
          THEN Follow(<< new_value >>, SamplePattern, o.fired, o.arg)
          ELSE UNCHANGED << watch, mon, mon_fired >>
    /\ polled' = Poll("microphone", analog["microphone"])
    /\ pc' = NextPc(pc)
    /\ led_call' = ""
    /\ UNCHANGED << dio_registry, ain_registry, analogs, strip_binds_pin, board_from_file,
                    handles, constructed, pause, pins,
                    analog, dial_value, is_pressing, pixel_ops, printed, cfg,
                    ctor, nctor, matrix_buffer, neopixel_buffer, display, stack,
                    held, pb >>

\* _update_pause; sys.exit() leaves the process at "exited", where nothing runs.
UpdatePause ==
    /\ constructed
    /\ pc = "pause"
    /\ \E v \in (IF pause # None THEN BOOLEAN ELSE {TRUE}) :
       LET o  == PauseOutcome(pause, v)
           st == StripApply([ auto_write |-> FALSE, buf |-> neopixel_buffer,
                              shown |-> display ], o.ops)
       IN
       /\ pixel_ops' = pixel_ops \o o.ops
       /\ neopixel_buffer' = st.buf
       /\ display' = st.shown
       /\ printed' = printed \o o.out
       /\ reads' = IF pause # None THEN << v >> ELSE <<>>
       /\ pc' = IF o.exit THEN "exited"
                ELSE IF stack # <<>> THEN Head(stack)
                ELSE NextPc(pc)
       /\ stack' = IF o.exit \/ stack = <<>> THEN stack ELSE Tail(stack)
    /\ polled' = IF pause # None THEN Poll("pause", pause) ELSE NoPoll
    /\ event' = NoEvent
    /\ led_call' = ""
    /\ UNCHANGED << dio_registry, ain_registry, analogs, strip_binds_pin, board_from_file,
                    handles, constructed, pause, pins,
                    analog, dial_value, microphone_value, is_pressing, cfg, ctor,
                    nctor, watch, mon, mon_fired, matrix_buffer, held, pb >>

\* The LED state of the instance, and an LED helper's result put back.
Leds ==
    LedState(matrix_buffer, [ auto_write |-> FALSE, buf |-> neopixel_buffer,
                              shown |-> display ])

LedCall(name, ls) ==
    /\ constructed
    /\ pc = ScanOrder[1]
    /\ stack = <<>>
    /\ matrix_buffer' = ls.matrix
    /\ neopixel_buffer' = ls.strip.buf
    /\ display' = ls.strip.shown
    /\ led_call' = name
    /\ event' = NoEvent
    /\ reads' = <<>>
    /\ polled' = NoPoll
    /\ UNCHANGED << dio_registry, ain_registry, analogs, strip_binds_pin, board_from_file,
                    handles, constructed, pause, pins,
                    analog, dial_value, microphone_value, is_pressing, pc, pixel_ops,
                    printed, cfg, ctor, nctor, watch, mon, mon_fired, stack, held, pb >>

\* set_pixel(x, y, color), called between two check_controls calls
DoSetPixel(x, y, color) == LedCall("set_pixel", SetPixel(Leds, x, y, color))

\* set_background(color)
DoSetBackground(color) == LedCall("set_background", SetBackground(Leds, color))

\* clear()
DoClear == LedCall("clear", Clear(Leds))

\* render()
DoRender == LedCall("render", RenderLeds(Leds))

\* PauseButton(button, leds, config_file) on a board with or without IO15; a
\* constructor that raises leaves the object made before as it is.
PBConstruct(button, leds, c, has_io15) ==
    /\ ~pb.exited
    /\ pb.n < MaxConstructs
    /\ LET r == PauseButtonInit(handles, analogs, button, leds, c, has_io15, board_from_file,
                                pb.n + 1) IN
       /\ handles' = r.handles
       /\ pb' = IF r.pb.made THEN r.pb
                ELSE [ pb EXCEPT !.raised = r.pb.raised, !.printed = r.pb.printed,
                                 !.step = "init", !.cfg = r.pb.cfg, !.read = TRUE,
                                 !.n = r.pb.n ]
    /\ UNCHANGED << dio_registry, ain_registry, analogs, strip_binds_pin, board_from_file,
                    constructed, pause, pins, analog,
                    dial_value, microphone_value, is_pressing, pc, pixel_ops, printed,
                    event, reads, cfg, ctor, nctor, watch, mon, mon_fired,
                    matrix_buffer, neopixel_buffer, display, led_call, stack, held,
                    polled >>

\* PauseButton.update(); sys.exit() leaves the process exited.
PBUpdate ==
    /\ pb.made
    /\ ~pb.exited
    /\ \E v \in (IF pb.button # None THEN BOOLEAN ELSE {TRUE}) :
           pb' = PBUpdateOutcome(pb, v)
    /\ UNCHANGED << dio_registry, ain_registry, analogs, strip_binds_pin, board_from_file,
                    handles, constructed, pause, pins,
                    analog, dial_value, microphone_value, is_pressing, pc, pixel_ops,
                    printed, event, reads, cfg, ctor, nctor, watch, mon, mon_fired,
                    matrix_buffer, neopixel_buffer, display, led_call, stack, held,
                    polled >>

\* The steps of check_controls, called over and over by the main loop.
Next ==
    \/ \E name \in DigitalNames : CheckDigital(name)
    \/ CheckDial
    \/ CheckMicrophone
    \/ UpdatePause

\* What the analog inputs read while only constructions are followed.
QuietSamples == { SamplePattern[1] }

\* Constructions, by default, from config files and with handles given.
NextConstruct ==
    \/ \E pin \in CallerPins : CallerBind(pin)
    \/ CallerBindAnalog(AinRoles[1].pin)
    \/ \E args \in ArgChoices(ClassState(dio_registry, ain_registry, handles, analogs)) :
       \E c \in CasesFor(args, board_from_file) :
       \E ds \in QuietSamples, ms \in QuietSamples : Construct(args, c, ds, ms)

\* A default PixelKit whose pause button came from the config file or is absent.
InitPixels ==
    /\ \E c \in { k \in LoadCases(FALSE) : \/ k.cfg.kind = "missing"
                                           \/ k.cfg.kind = "IN" /\ k.cfg.pin = "D15" } :
           AfterInit(Fresh, NoArgs, c, SamplePattern[1], SamplePattern[1], TRUE, FALSE)
    /\ watch = Unwatched
    /\ mon = 0
    /\ mon_fired = <<>>
    /\ held = NotHeld

\* check_controls and the LED helpers, called one after the other.
NextPixels ==
    \/ Next
    \/ \E c \in Cells, color \in Colors : DoSetPixel(c[1], c[2], color)
    \/ \E color \in Colors : DoSetBackground(color)
    \/ DoClear
    \/ DoRender

\* A program that makes PauseButton objects and calls update() on them.
NextPauseButton ==
    \/ \E pin \in CallerPins : CallerBind(pin)
    \/ CallerBindAnalog(AinRoles[1].pin)
    \/ \E leds \in LedsGiven, has_io15 \in BOOLEAN :
         \/ \E c \in PBCases(board_from_file) : PBConstruct(None, leds, c, has_io15)
         \/ \E button \in {None} \cup Givable(ClassState(dio_registry, ain_registry, handles, analogs)) :
              PBConstruct(button, leds, PBNoFile, has_io15)
    \/ PBUpdate

\* A default PixelKit without pause button; the hook of one input is
\* overridden, and that input is followed from callback to callback.
InitReenter ==
    /\ AfterInit(Fresh, NoArgs, CHOOSE c \in LoadCases(FALSE) : c.cfg.kind = "missing",
                 SamplePattern[1], SamplePattern[1], TRUE, FALSE)
    /\ watch = Unwatched
    /\ mon = 0
    /\ mon_fired = <<>>
    /\ held \in { [ input |-> n, on |-> FALSE ] : n \in DigitalNames }

\* check_controls where the overridden hook returns, raises or calls
\* check_controls; the default hooks (lines 184-190) return.
NextReenter ==
    \/ \E name \in DigitalNames :
       \E how \in (IF name = held.input THEN HookWays ELSE {"return"}) :
           CheckDigitalWith(name, how)
    \/ CheckDial
    \/ CheckMicrophone
    \/ UpdatePause

Spec == Init /\ [][Next]_vars

SpecReenter == InitReenter /\ [][NextReenter]_vars

SpecPauseButton == InitClass /\ [][NextPauseButton]_vars

SpecPixels == InitPixels /\ [][NextPixels]_vars

SpecSeq == InitSeq /\ [][Next]_vars

SpecConstruct == InitClass /\ [][NextConstruct]_vars

-----------------------------------------------------------------------------
(* Claims *)

\* The hook each digital input is bound to.
ClaimHook ==
    [ up |-> "on_joystick_up", down |-> "on_joystick_down", left |-> "on_joystick_left",
      right |-> "on_joystick_right", click |-> "on_joystick_click",
      a |-> "on_button_a", b |-> "on_button_b" ]

\* C1: at each poll of a digital input its callback is invoked exactly when
\* the level the poll reads is active (value False) and the input was Released
\* before the poll, and no other callback is invoked by that poll (so none on
\* a release); and when the polls of an input since construction saw active,
\* active, active, inactive, active, exactly two callbacks fired, at the 1st
\* and the 5th poll.
C1_EdgeTriggered ==
    /\ [][ \A n \in DigitalNames :
             pc = n =>
               /\ (event' # NoEvent) <=> (reads'[1] = FALSE /\ ~is_pressing[n])
               /\ event' # NoEvent => event' = Invoked(ClaimHook[n], None) ]_vars
    /\ [](watch \in DigitalNames /\ mon = Len(PressPattern) => mon_fired = << 1, 5 >>)

\* An input polled five times with active, active, active, inactive, active.
C1_Witness ==
    /\ watch \in DigitalNames
    /\ mon = Len(PressPattern)
    /\ mon_fired = << 1, 5 >>
    /\ is_pressing[watch]

\* C6: a poll of the dial (of the microphone) invokes on_dial (on_microphone)
\* iff the sample it reads differs from the stored value, passes it the new
\* sample, and leaves the stored value equal to the sample just read; and when
\* the samples read since construction were 10, 10, 12, 12, 9, exactly two
\* callbacks fired, with payloads 12 then 9.
C6_AnalogChange ==
    /\ [][ /\ pc = "dial" =>
               /\ (event' # NoEvent) <=> (reads'[1] # dial_value)
               /\ event' # NoEvent => event' = Invoked("on_dial", reads'[1])
               /\ dial_value' = reads'[1]
               /\ microphone_value' = microphone_value
           /\ pc = "microphone" =>
               /\ (event' # NoEvent) <=> (reads'[1] # microphone_value)
               /\ event' # NoEvent => event' = Invoked("on_microphone", reads'[1])
               /\ microphone_value' = reads'[1]
               /\ dial_value' = dial_value ]_vars
    /\ [](watch \in {"dial", "microphone"} /\ mon = Len(SamplePattern)
            => mon_fired = << 12, 9 >>)

\* The dial read 10, 10, 12, 12, 9 and now stores 9.
C6_Witness ==
    /\ watch = "dial"
    /\ mon = Len(SamplePattern)
    /\ mon_fired = << 12, 9 >>
    /\ dial_value = 9

\* C8: right after a _check_digital call of an input, its is_pressing flag is
\* true iff the last value the call read from the handle was active (False).
C8_FlagTracksLastRead ==
    \A n \in DigitalNames :
        pc = NextPc(n) => (is_pressing[n] <=> (reads[Len(reads)] = FALSE))

\* C4: _update_pause with no pause handle, or with the pause level read
\* inactive, returns (the scan goes on) and makes no call on the LED strip;
\* with a pause handle whose level reads active it calls fill(black) then
\* show(), once each and in that order, and the process is terminated, after
\* which nothing changes any more.
C4_PauseClearsThenExits ==
    /\ [][ /\ pc = "pause" /\ (pause = None \/ reads' = << TRUE >>) =>
               /\ pc' = "up"
               /\ pixel_ops' = pixel_ops
           /\ pc = "pause" /\ pause # None /\ reads' = << FALSE >> =>
               /\ pc' = "exited"
               /\ pixel_ops' = pixel_ops \o << Fill(Black), Show >>
           /\ pc # "pause" => pixel_ops' = pixel_ops /\ pc' # "exited"
           /\ pc = "exited" => UNCHANGED vars ]_vars
    /\ [](pixel_ops = IF pc = "exited" THEN << Fill(Black), Show >> ELSE <<>>)

\* The pause input read active: the strip was filled black and shown, and the
\* process has exited.
C4_Witness ==
    /\ pc = "exited"
    /\ pause # None
    /\ reads = << FALSE >>
    /\ pixel_ops = << Fill(Black), Show >>

\* The order of one check_controls cycle, by the check that produces each event.
ClaimScan ==
    << "up", "down", "left", "right", "click", "a", "b", "dial", "microphone", "pause" >>

\* The event of each check.
ClaimEvent ==
    [ up |-> "on_joystick_up", down |-> "on_joystick_down", left |-> "on_joystick_left",
      right |-> "on_joystick_right", click |-> "on_joystick_click",
      a |-> "on_button_a", b |-> "on_button_b", dial |-> "on_dial",
      microphone |-> "on_microphone" ]

\* C5: a check_controls cycle runs its checks in the order joystick up, down,
\* left, right, click, button a, b, dial, microphone, pause check; each check
\* can invoke only its own event, so the events of a cycle occur in that order;
\* and the process terminates only at the pause check, the last of the cycle,
\* the LED strip untouched until then.
C5_ScanOrder ==
    /\ [][ \E k \in 1..Len(ClaimScan) :
             /\ pc = ClaimScan[k]
             /\ pc' = IF k < Len(ClaimScan) THEN ClaimScan[k + 1]
                      ELSE IF pixel_ops' # pixel_ops THEN "exited" ELSE ClaimScan[1]
             /\ k < Len(ClaimScan) => pixel_ops' = pixel_ops
             /\ event' # NoEvent => k < Len(ClaimScan) /\ event'.name = ClaimEvent[ClaimScan[k]] ]_vars
    /\ [](constructed => pc \in {"exited"} \cup { ClaimScan[k] : k \in 1..Len(ClaimScan) })
    /\ [](constructed /\ pc = "up" => event = NoEvent)

\* A cycle with every button held in which the microphone event has just
\* fired and the pause check comes next.
C5_Witness ==
    /\ pc = "pause"
    /\ pause # None
    /\ event = Invoked("on_microphone", microphone_value)
    /\ \A n \in DigitalNames : is_pressing[n]

\* The kinds of config file that name no usable pause button.
BadKinds == {"missing", "empty", "arity", "nopin", "notpin", "baddir"}

\* C7: for a missing file, an empty file, a wrong field count, an unresolvable
\* pin name or an invalid direction, _load_pause_from_file returns None without
\* raising, the construction completes with pause set to None, and no later
\* check_controls terminates the process.
C7_BadConfigNoPause ==
    cfg.kind \in BadKinds =>
        /\ ctor.loaded = None
        /\ ~ctor.raised
        /\ constructed
        /\ pause = None
        /\ pc # "exited"

\* The loader's return is a handle on the pin the file names, set as it says.
LoadedAsConfigured ==
    /\ ctor.loaded # None
    /\ handles[ctor.loaded].pin = cfg.pin
    /\ cfg.kind = "IN" => /\ handles[ctor.loaded].direction = "INPUT"
                           /\ handles[ctor.loaded].pull = "UP"
    /\ cfg.kind = "OUT" => handles[ctor.loaded].direction = "OUTPUT"

\* The loader asked the driver for the pin the file names and was refused:
\* the pin is not in the registry after the load, or the name is that of an
\* attribute of board which is no pin.
LoaderBindingFailed ==
    \/ /\ cfg.kind \in {"IN", "OUT", "baddir"}
       /\ cfg.pin \notin DOMAIN dio_registry
    \/ cfg.kind = "notpin"

\* The pin is held outside the digital registry: by a DigitalInOut the
\* caller or the strip's library made, or by an analog input.
HeldOutsideDio(pin) ==
    /\ pin \notin DOMAIN dio_registry
    /\ \/ \E i \in 1..Len(analogs) : analogs[i].pin = pin
       \/ \E i \in 1..Len(handles) : handles[i].pin = pin

\* The pin is held outside the analog registry: by a DigitalInOut, or by an
\* AnalogIn the caller made.
HeldOutsideAin(pin) ==
    /\ pin \notin DOMAIN ain_registry
    /\ \/ \E i \in 1..Len(analogs) : analogs[i].pin = pin
       \/ \E i \in 1..Len(handles) : handles[i].pin = pin

\* The pin the file names is held outside the digital registry.
PinHeldElsewhere == HeldOutsideDio(cfg.pin)

\* C2 as stated: the loader returns a handle configured as the file says for
\* every first line <VALID_PIN>,IN or <VALID_PIN>,OUT, and None for every
\* other content.
C2_LoaderTotal ==
    cfg.kind # "notcalled" =>
        IF cfg.kind \in {"IN", "OUT"} THEN LoadedAsConfigured ELSE ctor.loaded = None

\* C2 amended: for a first line <VALID_PIN>,IN or <VALID_PIN>,OUT (direction
\* in any case, blanks around the line and the comma ignored) the loader
\* returns the registry's handle of that pin, configured as the file says,
\* unless the driver refuses to bind the pin because it is held outside the
\* digital registry: then it prints "Pause config error" and returns None.
\* For every other content it returns None.
C2_LoaderWhenBindable ==
    cfg.kind # "notcalled" =>
        IF cfg.kind \in {"IN", "OUT"}
        THEN IF cfg.pin \in DOMAIN dio_registry
             THEN ctor.loaded = dio_registry[cfg.pin] /\ LoadedAsConfigured
             ELSE ctor.loaded = None /\ printed = << MsgError >> /\ PinHeldElsewhere
        ELSE ctor.loaded = None

\* A file naming D15 as an output gave the pause handle, set as an output.
C2_Witness ==
    /\ cfg = [ kind |-> "OUT", pin |-> "D15" ]
    /\ ctor.loaded # None
    /\ pause = ctor.loaded
    /\ handles[pause] = [ pin |-> "D15", direction |-> "OUTPUT", pull |-> "NONE" ]

\* C9 as stated: every return of None by the loader is preceded by a
\* diagnostic message.
C9_EveryNoneLogged ==
    cfg.kind # "notcalled" /\ ctor.loaded = None => printed # <<>>

\* C9 amended: every return of None by the loader other than for a file that
\* cannot be opened is preceded by exactly one diagnostic, the one of its
\* cause; a file that cannot be opened gives None without any message.
C9_NoneLoggedButMissing ==
    cfg.kind # "notcalled" /\ ctor.loaded = None =>
        printed = IF cfg.kind = "missing" THEN <<>>
                  ELSE IF cfg.kind = "empty" THEN << MsgEmpty >>
                  ELSE IF cfg.kind = "arity" THEN << MsgMalformed >>
                  ELSE IF cfg.kind = "nopin" THEN << MsgNoPin >>
                  ELSE IF LoaderBindingFailed THEN << MsgError >>
                  ELSE << MsgBadDir >>

\* An empty first line was reported and gave no pause button.
C9_Witness ==
    /\ cfg.kind = "empty"
    /\ ctor.loaded = None
    /\ printed = << MsgEmpty >>
    /\ constructed
    /\ pause = None

\* The default pin of a digital or analog attribute of __init__.
DefaultPin(attr) ==
    IF attr \in DioAttrs
    THEN DioRoles[CHOOSE k \in 1..Len(DioRoles) : DioRoles[k].attr = attr].pin
    ELSE AinRoles[CHOOSE k \in 1..Len(AinRoles) : AinRoles[k].attr = attr].pin

\* C3: no two digital handles are bound to the same pin and the registry maps
\* each pin to the handle bound to it; over any constructions and config
\* loads a registry entry is never removed or replaced and a bound handle
\* stays on its pin; an acquisition of a pin the registry holds returns the
\* registered handle and never fails or binds again, both for the default
\* pins of a construction and for the pin a config file names.
C3_OneHandlePerPin ==
    /\ [](\A i \in 1..Len(handles) : \A j \in 1..Len(handles) :
              handles[i].pin = handles[j].pin => i = j)
    /\ [](\A p \in DOMAIN dio_registry :
              /\ dio_registry[p] \in 1..Len(handles)
              /\ handles[dio_registry[p]].pin = p)
    /\ [][ /\ \A p \in DOMAIN dio_registry :
                /\ p \in DOMAIN dio_registry'
                /\ dio_registry'[p] = dio_registry[p]
           /\ Len(handles') >= Len(handles)
           /\ \A i \in 1..Len(handles) : handles'[i].pin = handles[i].pin
           /\ nctor' = nctor + 1 =>
                /\ ctor'.raised /\ ctor'.site \in DioAttrs
                     => DefaultPin(ctor'.site) \notin DOMAIN dio_registry
                /\ ~ctor'.raised =>
                     \A a \in DioAttrs \ {"button_A"} :
                        /\ pins'[a] = dio_registry'[DefaultPin(a)]
                        /\ DefaultPin(a) \in DOMAIN dio_registry
                              => pins'[a] = dio_registry[DefaultPin(a)]
                /\ cfg'.kind \in {"IN", "OUT"} /\ cfg'.pin \in DOMAIN dio_registry
                     => ctor'.loaded = dio_registry[cfg'.pin] ]_vars

\* Two constructions bound the eight default pins once; the second took the
\* pause pin D18 from its config file and got the handle of button A.
C3_Witness ==
    /\ nctor = 2
    /\ constructed
    /\ ~ctor.raised
    /\ Len(handles) = Len(DioRoles)
    /\ cfg = [ kind |-> "IN", pin |-> "D18" ]
    /\ pause = pins["button_A"]
    /\ pause = dio_registry["D18"]

\* C10 as stated: a binding the driver refuses is never caught; also when the
\* loader attempts it, the construction ends with an exception, not with an
\* absent pause button.
C10_BindingFailureFatal ==
    LoaderBindingFailed => ctor.raised

\* C10 amended: a binding the driver refuses propagates out of the
\* construction when _init_dio or _init_ain is called from __init__ for a
\* button, joystick or analog attribute, or when the strip's library binds
\* its pin: the construction raises only there, at an attribute whose
\* default pin is held outside its registry or at the strip whose pin is
\* held, and a construction that does not raise has a handle for every
\* attribute.  A refusal inside _load_pause_from_file is caught there: the
\* loader prints "Pause config error", returns None, and never raises.
C10_BindingFailureFatalOutsideLoader ==
    /\ ctor.site # "pause"
    /\ LoaderBindingFailed =>
          /\ ctor.loaded = None
          /\ printed = << MsgError >>
          /\ cfg.kind # "notpin" => PinHeldElsewhere
    /\ ctor.raised =>
          /\ ctor.site \in DioAttrs \cup AinAttrs \cup { StripSite }
          /\ ctor.site \in DioAttrs => HeldOutsideDio(DefaultPin(ctor.site))
          /\ ctor.site \in AinAttrs => HeldOutsideAin(DefaultPin(ctor.site))
          /\ ctor.site = StripSite =>
                /\ strip_binds_pin
                /\ cfg = NotLoaded
                /\ \E i \in 1..Len(handles) : handles[i].pin = StripPin
    /\ nctor > 0 /\ ~ctor.raised =>
          /\ constructed
          /\ \A a \in DioAttrs : pins[a] # None
          /\ \A a \in AinAttrs : analog[a] # None

\* The caller holds D15 and the config file names it: the loader reported the
\* error and the PixelKit was constructed without pause button.
C10_Witness ==
    /\ cfg = [ kind |-> "IN", pin |-> "D15" ]
    /\ "D15" \notin DOMAIN dio_registry
    /\ printed = << MsgError >>
    /\ ~ctor.raised
    /\ constructed
    /\ pause = None

\* C11: a call of _load_pause_from_file that returns None leaves the class as
\* it found it: the digital registry, the handles with their direction and
\* pull, and the pins bound are the same when the loader returns as they were
\* when it was called (line 39, after the strip was made at line 35).
C11_NoneLeavesRegistry ==
    nctor > 0 /\ cfg.kind # "notcalled" /\ ctor.loaded = None
        => ctor.after_load = ctor.before_load

\* C12: what the LEDs show changes only in a step that is a render() call;
\* set_pixel, set_background and clear leave the strip and what it shows
\* alone, and clear() leaves what set_background(0x000000) leaves.
C12_OnlyRenderShows ==
    [][ /\ display' # display => led_call' = "render"
        /\ led_call' \in {"set_pixel", "set_background", "clear"}
             => neopixel_buffer' = neopixel_buffer /\ display' = display
        /\ led_call' = "clear" => matrix_buffer' = SetBackground(Leds, 0).matrix ]_vars


\* C12 (amended): what the LEDs show changes only in a render() call or in the
\* _update_pause step that finds the pause button pressed, which blanks the
\* LEDs and ends the process; set_pixel, set_background and clear change the
\* framebuffer only; clear() leaves what set_background(0x000000) leaves.
C12_OnlyRenderOrPauseShows ==
    [][ /\ display' # display =>
             \/ led_call' = "render"
             \/ pc = "pause" /\ pc' = "exited" /\ display' = [ c \in Cells |-> Black ]
        /\ led_call' \in {"set_pixel", "set_background", "clear"}
             => neopixel_buffer' = neopixel_buffer /\ display' = display
        /\ led_call' = "clear" => matrix_buffer' = SetBackground(Leds, 0).matrix ]_vars

\* clear() called while the LEDs show a rendered picture: they keep showing it.
C12_Witness ==
    /\ led_call = "clear"
    /\ matrix_buffer = [ c \in Cells |-> 0 ]
    /\ \E c \in Cells : display[c] = << 0, 255, 0 >>
    /\ \E c \in Cells : display[c] = Black


\* C13: once PauseButton.update has ended the process on an active button,
\* the LEDs it was given are cleared and show the clear, and the diagnostic
\* is logged; an update that does not end the process leaves the LEDs alone.
C13_UpdateClearsAndFlushes ==
    /\ []( pb.exited =>
             /\ pb.leds.given => pb.leds.buf = AllBlack /\ pb.leds.shown = AllBlack
             /\ pb.printed # <<>> /\ pb.printed[Len(pb.printed)] = MsgPBExit )
    /\ [][ pb'.step = "update" /\ ~pb'.exited => pb'.leds = pb.leds ]_vars

\* C14: a PauseButton made from a config file that is missing, empty, of a
\* wrong field count, names no pin of the board or gives a bad direction is
\* made without an exception, has no button, and no pin has been bound.
C14_BadConfigNoButton ==
    [][ pb'.step = "init" /\ pb'.cfg.kind \in BadKinds /\ pb' # pb
          => pb'.raised = "" /\ pb'.made /\ pb'.button = None /\ handles' = handles ]_vars


\* C15: in a constructed PixelKit, whatever the pause config file held, every
\* button and joystick attribute that holds the registry's handle of its
\* default pin is an input with pull-up.
C15_PolledInputsPulledUp ==
    constructed =>
      \A a \in DioAttrs :
        ( DefaultPin(a) \in DOMAIN dio_registry /\ pins[a] = dio_registry[DefaultPin(a)] )
          => /\ handles[pins[a]].direction = "INPUT"
             /\ handles[pins[a]].pull = "UP"


\* C16: the callback of a digital input is never invoked while the input is
\* held, that is, when it was invoked before and no poll of the input has
\* read inactive since (whether the earlier callback returned, raised or
\* called check_controls again); and the flag of an input is set in the state
\* a callback that raises or re-enters leaves behind.
C16_OneCallbackPerPress ==
    [][ \A n \in DigitalNames :
          ( pc = n /\ held.input = n /\ event' = Invoked(ClaimHook[n], None) )
            => /\ ~held.on
               /\ is_pressing'[n] ]_vars

\* The followed input's callback called check_controls again, and the nested
\* scan has polled the input, still active, without a second callback.
C16_Witness ==
    /\ stack # <<>>
    /\ held.on
    /\ pc = NextPc(held.input)
    /\ is_pressing[held.input]
    /\ reads = << FALSE, FALSE >>
    /\ event = NoEvent


\* The attribute that holds the handle of each logical input.
ClaimAttr ==
    [ up |-> "joystick_up", down |-> "joystick_down", left |-> "joystick_left",
      right |-> "joystick_right", click |-> "joystick_click",
      a |-> "button_A", b |-> "button_B" ]

\* C17: the poll of a digital input reads the handle of that input's
\* attribute only, invokes no callback but that input's own (on_joystick_*
\* for up, down, left, right, click; on_button_* for a, b), and leaves the
\* flags of the six other inputs and the stored dial and microphone values
\* as they were.
C17_PollTouchesOneInput ==
    [][ \A n \in DigitalNames :
          pc = n =>
            /\ polled' = Poll(ClaimAttr[n], pins[ClaimAttr[n]])
            /\ event' \in { NoEvent, Invoked(ClaimHook[n], None) }
            /\ \A m \in DigitalNames \ {n} : is_pressing'[m] = is_pressing[m]
            /\ dial_value' = dial_value
            /\ microphone_value' = microphone_value ]_vars

\* The poll of "left" has just invoked on_joystick_left while button a is
\* pressed, "up" is released and the dial has moved.
C17_Witness ==
    /\ pc = NextPc("left")
    /\ polled.attr = "joystick_left"
    /\ event = Invoked("on_joystick_left", None)
    /\ is_pressing["left"] /\ is_pressing["a"] /\ ~is_pressing["up"]
    /\ dial_value = 12

====
